---------------------------- MODULE Spec2Model ----------------------------
(***************************************************************************)
(* CollectionViewer plugin lifecycle manager (src/lifecycle_manager.py).   *)
(*                                                                         *)
(* The state is the host database (tables plugin and module, each with a   *)
(* committed content and the working content of the session's open         *)
(* transaction), the active_users set of a long-lived manager instance     *)
(* (the standalone functions construct an instance of their own for each   *)
(* call), the shared directory the plugin files are copied to, and the     *)
(* record of the last call (its result record and the trace of database    *)
(* and filesystem calls it issued).                                        *)
(*                                                                         *)
(* The calls are sequential (one coroutine at a time, as the code has no   *)
(* concurrency of its own).  Every database call, the directory creation   *)
(* and the file copy can fail; which ones fail in a call is an input of    *)
(* the call.                                                               *)
(***************************************************************************)
EXTENDS Integers, Sequences, FiniteSets, TLC

VARIABLES
    plugin,        \* committed rows of table plugin
    module,        \* committed rows of table module
    tx_plugin,     \* table plugin as the session's open transaction sees it
    tx_module,     \* table module as the session's open transaction sees it
    active_users,  \* active_users of the long-lived manager instance
    source,        \* the plugin's source directory: a set of items
    target,        \* the shared directory: a set of items
    plugin_dir,    \* the directory _validate_installation_impl looks at
    last           \* the last call: operation, arguments, result, trace

vars == <<plugin, module, tx_plugin, tx_module, active_users, source, target,
          plugin_dir, last>>

----------------------------------------------------------------------------
(* Bounds *)

NumUsers == 2

MaxBundleSize == 2

UserIds == {"u" \o ToString(i) : i \in 1..NumUsers}

----------------------------------------------------------------------------
(* Static metadata *)

plugin_slug == "CollectionViewer"

plugin_name == "CollectionViewer"

\* self.module_data: the list of module definitions (their names)
module_data == <<"CollectionViewer">>

----------------------------------------------------------------------------
(* The database session.  A session value d is a record                    *)
(*   [plugin, module, tx_plugin, tx_module, trace].                        *)
(* execute works on the transaction's view, commit publishes it, rollback  *)
(* discards it.  faults is the set of calls that raise in this call.       *)

Event(op, ok) == [op |-> op, ok |-> ok]

Log(d, op, ok) == [d EXCEPT !.trace = Append(@, Event(op, ok))]

DbError == "database error"

\* db.commit()
DbCommit(d, faults) ==
    IF "commit" \in faults
    THEN [d |-> Log(d, "COMMIT", FALSE), raised |-> TRUE]
    ELSE [d |-> [Log(d, "COMMIT", TRUE) EXCEPT !.plugin = d.tx_plugin,
                                               !.module = d.tx_module],
          raised |-> FALSE]

\* db.rollback(): the transaction's work is discarded; a rollback that
\* raises still ends the transaction (the session closes it before it
\* re-raises), so nothing of it can be committed later.
DbRollback(d, faults) ==
    [d |-> [Log(d, "ROLLBACK", "rollback" \notin faults)
                EXCEPT !.tx_plugin = d.plugin, !.tx_module = d.module],
     raised |-> "rollback" \in faults]


\* db.execute(plugin_query, ...) and result.fetchone():
\* SELECT ... FROM plugin WHERE user_id = :user_id AND plugin_slug = :plugin_slug
DbSelectPlugin(d, user_id, slug, faults) ==
    IF "select" \in faults
    THEN [d |-> Log(d, "SELECT", FALSE), raised |-> TRUE, rows |-> {}]
    ELSE [d |-> Log(d, "SELECT", TRUE), raised |-> FALSE,
          rows |-> {r \in d.tx_plugin :
                        r.user_id = user_id /\ r.plugin_slug = slug}]

\* db.execute(plugin_stmt, ...): INSERT INTO plugin.  The table's primary
\* key is id: inserting an id that is present raises.  A row keeps the
\* columns that identify it (id, user_id, plugin_slug); the other columns
\* are the constant metadata.
DbInsertPlugin(d, row, faults) ==
    IF "insert_plugin" \in faults \/ \E r \in d.tx_plugin : r.id = row.id
    THEN [d |-> Log(d, "INSERT_PLUGIN", FALSE), raised |-> TRUE]
    ELSE [d |-> [Log(d, "INSERT_PLUGIN", TRUE)
                     EXCEPT !.tx_plugin = @ \cup {row}],
          raised |-> FALSE]

\* db.execute(module_stmt, ...): INSERT INTO module, primary key id.
DbInsertModule(d, row, faults) ==
    IF "insert_module" \in faults \/ \E r \in d.tx_module : r.id = row.id
    THEN [d |-> Log(d, "INSERT_MODULE", FALSE), raised |-> TRUE]
    ELSE [d |-> [Log(d, "INSERT_MODULE", TRUE)
                     EXCEPT !.tx_module = @ \cup {row}],
          raised |-> FALSE]

\* db.execute(module_delete_stmt, ...):
\* DELETE FROM module WHERE plugin_id = :plugin_id AND user_id = :user_id
DbDeleteModule(d, plugin_id, user_id, faults) ==
    LET hit == {r \in d.tx_module :
                    r.plugin_id = plugin_id /\ r.user_id = user_id}
    IN  IF "delete_module" \in faults
        THEN [d |-> Log(d, "DELETE_MODULE", FALSE), raised |-> TRUE,
              rowcount |-> 0]
        ELSE [d |-> [Log(d, "DELETE_MODULE", TRUE)
                         EXCEPT !.tx_module = @ \ hit],
              raised |-> FALSE, rowcount |-> Cardinality(hit)]

\* The plugin DELETE without its WHERE clause
DbDeletePlugin_NoWhere(d, plugin_id, user_id, faults) ==
    LET hit == d.tx_plugin
    IN  IF "delete_plugin" \in faults
        THEN [d |-> Log(d, "DELETE_PLUGIN", FALSE), raised |-> TRUE,
              rowcount |-> 0]
        ELSE [d |-> [Log(d, "DELETE_PLUGIN", TRUE)
                         EXCEPT !.tx_plugin = @ \ hit],
              raised |-> FALSE, rowcount |-> Cardinality(hit)]

\* db.execute(plugin_delete_stmt, ...):
\* DELETE FROM plugin WHERE id = :plugin_id AND user_id = :user_id
DbDeletePlugin(d, plugin_id, user_id, faults) ==
    LET hit == {r \in d.tx_plugin : r.id = plugin_id /\ r.user_id = user_id}
    IN  IF "delete_plugin" \in faults
        THEN [d |-> Log(d, "DELETE_PLUGIN", FALSE), raised |-> TRUE,
              rowcount |-> 0]
        ELSE [d |-> [Log(d, "DELETE_PLUGIN", TRUE)
                         EXCEPT !.tx_plugin = @ \ hit],
              raised |-> FALSE, rowcount |-> Cardinality(hit)]

----------------------------------------------------------------------------
(* CollectionViewerLifecycleManager: database methods.  Each returns       *)
(* [d, raised, ret]: the session afterwards, whether an exception left     *)
(* the method, and the dict it returned otherwise.                         *)

\* A local variable: F applied to the value of v, computed once
Bind(v, F(_)) == CHOOSE r \in {F(x) : x \in {v}} : TRUE

Returned(d, ret) == [d |-> d, raised |-> FALSE, ret |-> ret]

Raised(d) == [d |-> d, raised |-> TRUE, ret |-> [success |-> FALSE]]

\* f"{user_id}_{plugin_slug}"
PluginId(user_id) == user_id \o "_" \o plugin_slug

\* The module id without the plugin's slug
ModuleId_NoSlug(user_id, name) == user_id \o "_" \o name

\* f"{user_id}_{plugin_slug}_{module_data['name']}"
ModuleId(user_id, name) == user_id \o "_" \o plugin_slug \o "_" \o name

_check_existing_plugin(d, user_id, faults) ==
    Bind(DbSelectPlugin(d, user_id, plugin_slug, faults), LAMBDA q :
        IF q.raised
        THEN \* except Exception: logged, no rollback
             Returned(q.d, [exists |-> FALSE, error |-> DbError])
        ELSE IF q.rows # {}
             THEN Returned(q.d, [exists |-> TRUE,
                                 plugin_id |-> (CHOOSE r \in q.rows : TRUE).id])
             ELSE Returned(q.d, [exists |-> FALSE]))

\* The except clause without its rollback
ExceptRollback_NoRollback(d, faults) ==
    Returned(d, [success |-> FALSE, error |-> DbError])

\* The except clause of _create_database_records and of
\* _delete_database_records: log, rollback, return the failure.
ExceptRollback(d, faults) ==
    Bind(DbRollback(d, faults), LAMBDA rb :
        IF rb.raised THEN Raised(rb.d)
        ELSE Returned(rb.d, [success |-> FALSE, error |-> DbError]))

\* The loop "for module_data in self.module_data" from its i-th element:
\* [d, raised, modules_created].
RECURSIVE InsertModules(_, _, _, _, _, _)
InsertModules(d, user_id, plugin_id, i, modules_created, faults) ==
    IF i > Len(module_data)
    THEN [d |-> d, raised |-> FALSE, modules_created |-> modules_created]
    ELSE Bind(DbInsertModule(d, [id |-> ModuleId(user_id, module_data[i]),
                                 plugin_id |-> plugin_id,
                                 name |-> module_data[i],
                                 user_id |-> user_id], faults), LAMBDA ins :
             IF ins.raised
             THEN [d |-> ins.d, raised |-> TRUE,
                   modules_created |-> modules_created]
             ELSE InsertModules(ins.d, user_id, plugin_id, i + 1,
                                Append(modules_created,
                                       ModuleId(user_id, module_data[i])),
                                faults))

\* _create_database_records committing right after the plugin INSERT,
\* before the module INSERTs
_create_database_records_CommitFirst(d, user_id, faults) ==
    Bind(DbInsertPlugin(d, [id |-> PluginId(user_id), user_id |-> user_id,
                            plugin_slug |-> plugin_slug], faults), LAMBDA p :
    IF p.raised THEN ExceptRollback(p.d, faults)
    ELSE
    Bind(DbCommit(p.d, faults), LAMBDA c :
    IF c.raised THEN ExceptRollback(c.d, faults)
    ELSE
    Bind(InsertModules(c.d, user_id, PluginId(user_id), 1, <<>>, faults), LAMBDA ms :
    IF ms.raised THEN ExceptRollback(ms.d, faults)
    ELSE Returned(ms.d, [success |-> TRUE, plugin_id |-> PluginId(user_id),
                         modules_created |-> ms.modules_created]))))

_create_database_records(d, user_id, faults) ==
    Bind(DbInsertPlugin(d, [id |-> PluginId(user_id), user_id |-> user_id,
                            plugin_slug |-> plugin_slug], faults), LAMBDA p :
    IF p.raised THEN ExceptRollback(p.d, faults)
    ELSE
    Bind(InsertModules(p.d, user_id, PluginId(user_id), 1, <<>>, faults), LAMBDA ms :
    IF ms.raised THEN ExceptRollback(ms.d, faults)
    ELSE
    Bind(DbCommit(ms.d, faults), LAMBDA c :
    IF c.raised THEN ExceptRollback(c.d, faults)
    ELSE Returned(c.d, [success |-> TRUE, plugin_id |-> PluginId(user_id),
                        modules_created |-> ms.modules_created]))))

\* _delete_database_records deleting the plugin row before the module rows
_delete_database_records_PluginFirst(d, user_id, plugin_id, faults) ==
    Bind(DbDeletePlugin(d, plugin_id, user_id, faults), LAMBDA dp :
    IF dp.raised THEN ExceptRollback(dp.d, faults)
    ELSE
    Bind(DbDeleteModule(dp.d, plugin_id, user_id, faults), LAMBDA dm :
    IF dm.raised THEN ExceptRollback(dm.d, faults)
    ELSE IF dp.rowcount = 0
    THEN Bind(DbRollback(dm.d, faults), LAMBDA rb :
             IF rb.raised THEN ExceptRollback(rb.d, faults)
             ELSE Returned(rb.d, [success |-> FALSE,
                                  error |-> "Plugin not found"]))
    ELSE Bind(DbCommit(dm.d, faults), LAMBDA c :
             IF c.raised THEN ExceptRollback(c.d, faults)
             ELSE Returned(c.d, [success |-> TRUE,
                                 deleted_modules |-> dm.rowcount]))))

_delete_database_records(d, user_id, plugin_id, faults) ==
    Bind(DbDeleteModule(d, plugin_id, user_id, faults), LAMBDA dm :
    IF dm.raised THEN ExceptRollback(dm.d, faults)
    ELSE
    Bind(DbDeletePlugin(dm.d, plugin_id, user_id, faults), LAMBDA dp :
    IF dp.raised THEN ExceptRollback(dp.d, faults)
    ELSE IF dp.rowcount = 0
    THEN Bind(DbRollback(dp.d, faults), LAMBDA rb :
             IF rb.raised THEN ExceptRollback(rb.d, faults)
             ELSE Returned(rb.d, [success |-> FALSE,
                                  error |-> "Plugin not found"]))
    ELSE Bind(DbCommit(dp.d, faults), LAMBDA c :
             IF c.raised THEN ExceptRollback(c.d, faults)
             ELSE Returned(c.d, [success |-> TRUE,
                                 deleted_modules |-> dm.rowcount]))))

_perform_user_installation(d, user_id, faults) ==
    Bind(_create_database_records(d, user_id, faults), LAMBDA db_result :
        IF db_result.raised
        THEN \* except Exception
             Returned(db_result.d, [success |-> FALSE, error |-> DbError])
        ELSE IF ~db_result.ret.success THEN db_result
        ELSE Returned(db_result.d,
                 [success |-> TRUE,
                  plugin_id |-> db_result.ret.plugin_id,
                  plugin_slug |-> plugin_slug,
                  plugin_name |-> plugin_name,
                  modules_created |-> db_result.ret.modules_created]))

\* _perform_user_uninstallation without its try/except: an exception of
\* _delete_database_records leaves it
_perform_user_uninstallation_NoExcept(d, user_id, faults) ==
    Bind(_check_existing_plugin(d, user_id, faults), LAMBDA existing_check :
    IF ~existing_check.ret.exists
    THEN Returned(existing_check.d,
             [success |-> FALSE, error |-> "Plugin not found for user"])
    ELSE
    Bind(_delete_database_records(existing_check.d, user_id,
                                  existing_check.ret.plugin_id, faults),
         LAMBDA delete_result :
    IF delete_result.raised \/ ~delete_result.ret.success
    THEN delete_result
    ELSE Returned(delete_result.d,
             [success |-> TRUE, plugin_id |-> existing_check.ret.plugin_id,
              deleted_modules |-> delete_result.ret.deleted_modules])))

_perform_user_uninstallation(d, user_id, faults) ==
    Bind(_check_existing_plugin(d, user_id, faults), LAMBDA existing_check :
    IF ~existing_check.ret.exists
    THEN Returned(existing_check.d,
             [success |-> FALSE, error |-> "Plugin not found for user"])
    ELSE
    Bind(_delete_database_records(existing_check.d, user_id,
                                  existing_check.ret.plugin_id, faults),
         LAMBDA delete_result :
    IF delete_result.raised
    THEN \* except Exception
         Returned(delete_result.d, [success |-> FALSE, error |-> DbError])
    ELSE IF ~delete_result.ret.success THEN delete_result
    ELSE Returned(delete_result.d,
             [success |-> TRUE, plugin_id |-> existing_check.ret.plugin_id,
              deleted_modules |-> delete_result.ret.deleted_modules])))

----------------------------------------------------------------------------
(* BaseLifecycleManager (the minimal implementation of this file).  Each   *)
(* returns [d, raised, ret, active]: active is the instance's active_users after.  *)

\* install_for_user adding the user whatever _perform_user_installation
\* returned
install_for_user_AlwaysAdds(d, active, user_id, faults) ==
    IF user_id \in active
    THEN [d |-> d, raised |-> FALSE, active |-> active,
          ret |-> [success |-> FALSE,
                   error |-> "Plugin already installed for user"]]
    ELSE Bind(_perform_user_installation(d, user_id, faults), LAMBDA result :
             [d |-> result.d, raised |-> result.raised,
              active |-> active \cup {user_id},
              ret |-> result.ret])

install_for_user(d, active, user_id, faults) ==
    IF user_id \in active
    THEN [d |-> d, raised |-> FALSE, active |-> active,
          ret |-> [success |-> FALSE,
                   error |-> "Plugin already installed for user"]]
    ELSE Bind(_perform_user_installation(d, user_id, faults), LAMBDA result :
             [d |-> result.d, raised |-> result.raised,
              active |-> IF result.ret.success THEN active \cup {user_id}
                         ELSE active,
              ret |-> result.ret])

\* uninstall_for_user reporting success for a user who is not active
uninstall_for_user_Idempotent(d, active, user_id, faults) ==
    IF user_id \notin active
    THEN [d |-> d, raised |-> FALSE, active |-> active,
          ret |-> [success |-> TRUE, plugin_id |-> PluginId(user_id),
                   deleted_modules |-> 0]]
    ELSE Bind(_perform_user_uninstallation(d, user_id, faults), LAMBDA result :
             [d |-> result.d, raised |-> result.raised,
              active |-> IF result.ret.success THEN active \ {user_id}
                         ELSE active,
              ret |-> result.ret])

uninstall_for_user(d, active, user_id, faults) ==
    IF user_id \notin active
    THEN [d |-> d, raised |-> FALSE, active |-> active,
          ret |-> [success |-> FALSE,
                   error |-> "Plugin not installed for user"]]
    ELSE Bind(_perform_user_uninstallation(d, user_id, faults), LAMBDA result :
             [d |-> result.d, raised |-> result.raised,
              active |-> IF result.ret.success THEN active \ {user_id}
                         ELSE active,
              ret |-> result.ret])

----------------------------------------------------------------------------
(* Paths and file trees.  A path is a sequence of names; an item of a      *)
(* directory tree is [path, kind], kind "file" or "dir".                   *)

File(p) == [path |-> p, kind |-> "file"]

Dir(p) == [path |-> p, kind |-> "dir"]

\* str.endswith
EndsWith(str, suffix) ==
    /\ Len(str) >= Len(suffix)
    /\ SubSeq(str, Len(str) - Len(suffix) + 1, Len(str)) = suffix

\* '*' in pattern
HasStar(pattern) == \E i \in 1..Len(pattern) : SubSeq(pattern, i, i) = "*"

\* pattern.replace('*', '')
RECURSIVE RemoveStar(_)
RemoveStar(pattern) ==
    IF pattern = "" THEN ""
    ELSE LET head == SubSeq(pattern, 1, 1)
             rest == RemoveStar(SubSeq(pattern, 2, Len(pattern)))
         IN  IF head = "*" THEN rest ELSE head \o rest

\* str(relative_path)
RECURSIVE PathStr(_)
PathStr(p) ==
    IF Len(p) = 1 THEN p[1] ELSE p[1] \o "/" \o PathStr(Tail(p))

\* The directories mkdir(parents=True) creates for target_path.parent
Parents(p) == {Dir(SubSeq(p, 1, k)) : k \in 1..(Len(p) - 1)}

exclude_patterns ==
    {"node_modules", "package-lock.json", ".git", ".gitignore",
     "__pycache__", "*.pyc", ".DS_Store"}

\* The suffixes of the second loop of should_copy: pattern.replace('*', '')
\* of every pattern with a '*'
StarSuffixes == {RemoveStar(pattern) : pattern \in {x \in exclude_patterns : HasStar(x)}}

\* should_copy without its second loop (the '*' patterns)
should_copy_PartsOnly(path) ==
    \A i \in 1..Len(path) : path[i] \notin exclude_patterns

should_copy(path) ==
    /\ \A i \in 1..Len(path) : path[i] \notin exclude_patterns
    /\ \A suffix \in StarSuffixes : ~EndsWith(path[Len(path)], suffix)

\* Path(__file__) relative to source_dir
lifecycle_manager_py == <<"lifecycle_manager.py">>

\* The items the loop over source_dir.rglob('*') handles: not this file
\* itself, not an excluded path.
LoopItems(src) ==
    {item \in src : /\ item # File(lifecycle_manager_py)
                    /\ should_copy(item.path)}

\* copied_files after the loop, in the order rglob yields the files (any
\* order; here a fixed one).
RECURSIVE CopiedList(_)
CopiedList(files) ==
    IF files = {} THEN <<>>
    ELSE LET f == CHOOSE x \in files : TRUE
         IN  <<PathStr(f.path)>> \o CopiedList(files \ {f})

\* _copy_plugin_files_impl with the copy of lifecycle_manager.py inside a
\* try of its own: its failure is skipped like a file's in the loop
_copy_plugin_files_impl_FinalSkipped(src, tgt, failing, fatal) ==
    Bind(LoopItems(src) \ failing, LAMBDA done :
    Bind({item \in done : item.kind = "file"}, LAMBDA files :
    Bind(tgt \cup done \cup UNION {Parents(item.path) : item \in files},
         LAMBDA after_loop :
    IF fatal = "rglob"
    THEN [target |-> tgt,
          ret |-> [success |-> FALSE, error |-> "copy error"]]
    ELSE IF fatal = "final"
    THEN [target |-> after_loop,
          ret |-> [success |-> TRUE, copied_files |-> CopiedList(files)]]
    ELSE [target |-> after_loop \cup {File(lifecycle_manager_py)},
          ret |-> [success |-> TRUE,
                   copied_files |->
                       Append(CopiedList(files),
                              PathStr(lifecycle_manager_py))]])))

\* _copy_plugin_files_impl(user_id, target_dir): [target, ret].
\* failing: the items whose copy raises inside the loop (logged, skipped);
\* fatal: "rglob" when listing the source raises, "final" when copying
\* lifecycle_manager.py raises, "none" otherwise.
_copy_plugin_files_impl(src, tgt, failing, fatal) ==
    Bind(LoopItems(src) \ failing, LAMBDA done :
    Bind({item \in done : item.kind = "file"}, LAMBDA files :
    Bind(tgt \cup done \cup UNION {Parents(item.path) : item \in files},
         LAMBDA after_loop :
    IF fatal = "rglob"
    THEN [target |-> tgt,
          ret |-> [success |-> FALSE, error |-> "copy error"]]
    ELSE IF File(lifecycle_manager_py) \notin src
    THEN [target |-> after_loop,
          ret |-> [success |-> TRUE, copied_files |-> CopiedList(files)]]
    ELSE IF fatal = "final"
    THEN [target |-> after_loop,
          ret |-> [success |-> FALSE, error |-> "copy error"]]
    ELSE [target |-> after_loop \cup {File(lifecycle_manager_py)},
          ret |-> [success |-> TRUE,
                   copied_files |->
                       Append(CopiedList(files),
                              PathStr(lifecycle_manager_py))]])))

----------------------------------------------------------------------------
(* The compatibility methods and the standalone functions.  A world w is   *)
(* [d, active, target]; a call returns [w, raised, ret].  fs is the        *)
(* filesystem's part of the call's input: [mkdir, failing, fatal].         *)

install_plugin_method(w, src, user_id, faults, fs) ==
    Bind(_check_existing_plugin(w.d, user_id, faults), LAMBDA existing_check :
    IF existing_check.ret.exists
    THEN [w |-> [w EXCEPT !.d = existing_check.d], raised |-> FALSE,
          ret |-> [success |-> FALSE, error |-> "Plugin already installed"]]
    ELSE IF fs.mkdir
    THEN \* shared_path.mkdir raises: except Exception
         [w |-> [w EXCEPT !.d = Log(existing_check.d, "MKDIR", FALSE)],
          raised |-> FALSE,
          ret |-> [success |-> FALSE, error |-> "mkdir error"]]
    ELSE
    Bind(_copy_plugin_files_impl(src, w.target, fs.failing, fs.fatal),
         LAMBDA copy_result :
    Bind(Log(Log(existing_check.d, "MKDIR", TRUE),
             "COPY", copy_result.ret.success), LAMBDA d2 :
    IF ~copy_result.ret.success
    THEN [w |-> [w EXCEPT !.d = d2, !.target = copy_result.target],
          raised |-> FALSE, ret |-> copy_result.ret]
    ELSE
    Bind(install_for_user(d2, w.active, user_id, faults), LAMBDA result :
        \* an exception of install_for_user: except Exception
        [w |-> [d |-> result.d, active |-> result.active,
                target |-> copy_result.target],
         raised |-> FALSE,
         ret |-> IF result.raised
                 THEN [success |-> FALSE, error |-> DbError]
                 ELSE result.ret]))))

delete_plugin_method(w, user_id, faults) ==
    Bind(uninstall_for_user(w.d, w.active, user_id, faults), LAMBDA result :
        [w |-> [w EXCEPT !.d = result.d, !.active = result.active],
         raised |-> result.raised, ret |-> result.ret])

\* CollectionViewerLifecycleManager(plugins_base_dir): a new instance has
\* no active users
NewManagerActive == {}

\* install_plugin(user_id, db, plugins_base_dir)
install_plugin(w, src, user_id, faults, fs) ==
    install_plugin_method([w EXCEPT !.active = NewManagerActive],
                          src, user_id, faults, fs)

\* delete_plugin(user_id, db, plugins_base_dir)
delete_plugin(w, user_id, faults) ==
    delete_plugin_method([w EXCEPT !.active = NewManagerActive],
                         user_id, faults)

----------------------------------------------------------------------------
(* Validation.  A plugin directory is [package_json, bundle]:              *)
(*   package_json  [state, kind, members]: state "absent", "unreadable"    *)
(*                 (open raises), "invalid" (not JSON) or "parsed"; of a   *)
(*                 parsed value, kind is "object", "array", "string" or    *)
(*                 "scalar" and members are the strings x for which        *)
(*                 Python's  x in value  is true;                          *)
(*   bundle        the size of dist/remoteEntry.js, -1 when it is absent.  *)

\* required_files without the bundle
required_files_OnlyPackage == <<"package.json">>

required_files == <<"package.json", "dist/remoteEntry.js">>

required_fields == <<"name", "version">>

\* (plugin_dir / file_path).exists()
Exists(dir, file_path) ==
    IF file_path = "package.json" THEN dir.package_json.state # "absent"
    ELSE dir.bundle >= 0

\* sep.join(strs)
RECURSIVE Join(_, _)
Join(strs, sep) ==
    IF strs = <<>> THEN ""
    ELSE IF Len(strs) = 1 THEN strs[1]
    ELSE strs[1] \o sep \o Join(Tail(strs), sep)

\* The first field of required_fields, from the i-th, that is not in
\* package_data; "" when there is none
RECURSIVE FirstMissingField(_, _)
FirstMissingField(package_data, i) ==
    IF i > Len(required_fields) THEN ""
    ELSE IF required_fields[i] \notin package_data.members
    THEN required_fields[i]
    ELSE FirstMissingField(package_data, i + 1)

_validate_installation_impl(user_id, dir) ==
    LET missing_files ==
            SelectSeq(required_files, LAMBDA f : ~Exists(dir, f))
        package_data == dir.package_json
    IN  IF missing_files # <<>>
        THEN [valid |-> FALSE,
              error |-> "Missing required files: " \o Join(missing_files, ", ")]
        ELSE IF package_data.state = "unreadable"
        THEN \* open raises an OSError: the outer except Exception
             [valid |-> FALSE, error |-> "Permission denied"]
        ELSE IF package_data.state = "invalid"
        THEN [valid |-> FALSE, error |-> "Invalid package.json: JSONDecodeError"]
        ELSE IF package_data.kind = "scalar"
        THEN \* "field not in package_data" raises TypeError: the outer except
             [valid |-> FALSE, error |-> "argument is not iterable"]
        ELSE IF FirstMissingField(package_data, 1) # ""
        THEN [valid |-> FALSE,
              error |-> "package.json missing required field: "
                            \o FirstMissingField(package_data, 1)]
        ELSE IF dir.bundle = 0
        THEN [valid |-> FALSE, error |-> "Bundle file is empty"]
        ELSE [valid |-> TRUE]

----------------------------------------------------------------------------
(* Inputs of a call *)

\* The database calls of one path through install_plugin / delete_plugin
\* that can raise.  After the first call that raises inside a try body no
\* other call of that body is issued, so one body fault per call covers
\* every behaviour; the SELECT's failure is swallowed and the rollback runs
\* in the handler, so both combine with a body fault.
FaultSets(body) ==
    {s \cup b \cup r : s \in {{}, {"select"}},
                       b \in {{}} \cup {{x} : x \in body},
                       r \in {{}, {"rollback"}}}

InstallFaults == FaultSets({"insert_plugin", "insert_module", "commit"})

DeleteFaults == FaultSets({"delete_module", "delete_plugin", "commit"})

\* The filesystem's behaviour during one install over source tree src
FsChoices(src) ==
    {[mkdir |-> TRUE, failing |-> {}, fatal |-> "none"],
     [mkdir |-> FALSE, failing |-> {}, fatal |-> "rglob"]}
    \cup {[mkdir |-> FALSE, failing |-> f, fatal |-> x] :
              f \in SUBSET LoopItems(src), x \in {"none", "final"}}

FsFails(fs) == fs.mkdir \/ fs.fatal # "none"

\* The inputs of one install: a failing filesystem step ends the call
\* before any database write, so only the SELECT's fault matters with it.
InstallInputs(src) ==
    {in \in [faults : InstallFaults, fs : FsChoices(src)] :
         FsFails(in.fs) => in.faults \subseteq {"select"}}

\* The source tree the lifecycle calls copy from
DefaultSource ==
    {File(lifecycle_manager_py),
     File(<<"package.json">>),
     Dir(<<"node_modules">>), File(<<"node_modules", "index.js">>)}

\* No directory is being validated
NoDir == [package_json |-> [state |-> "absent", kind |-> "none", members |-> {}],
          bundle |-> -1]

----------------------------------------------------------------------------
(* The lifecycle specification *)

Session == [plugin |-> plugin, module |-> module, tx_plugin |-> tx_plugin,
            tx_module |-> tx_module, trace |-> <<>>]

World(active) == [d |-> Session, active |-> active, target |-> target]

RowsOf(table, user_id) == {r \in table : r.user_id = user_id}

\* What a call leaves behind: the database, the files, and the call's record
Effect(op, standalone, user_id, out) ==
    /\ plugin' = out.w.d.plugin
    /\ module' = out.w.d.module
    /\ tx_plugin' = out.w.d.tx_plugin
    /\ tx_module' = out.w.d.tx_module
    /\ target' = out.w.target
    /\ last' = [op |-> op, standalone |-> standalone, user_id |-> user_id,
                raised |-> out.raised, ret |-> out.ret,
                trace |-> out.w.d.trace,
                pre_plugin |-> Cardinality(RowsOf(plugin, user_id)),
                pre_module |-> Cardinality(RowsOf(module, user_id))]
    /\ UNCHANGED <<source, plugin_dir>>

Init ==
    /\ plugin = {}
    /\ module = {}
    /\ tx_plugin = {}
    /\ tx_module = {}
    /\ active_users = {}
    /\ source = DefaultSource
    /\ target = {}
    /\ plugin_dir = NoDir
    /\ last = [op |-> "none"]

\* manager.install_plugin(user_id, db) on the long-lived instance
Install(user_id) ==
    \E in \in InstallInputs(source) :
        \E out \in {install_plugin_method(World(active_users), source,
                                         user_id, in.faults, in.fs)} :
            /\ Effect("install", FALSE, user_id, out)
            /\ active_users' = out.w.active

\* manager.delete_plugin(user_id, db) on the long-lived instance
Delete(user_id) ==
    \E faults \in DeleteFaults :
        \E out \in {delete_plugin_method(World(active_users), user_id, faults)} :
            /\ Effect("delete", FALSE, user_id, out)
            /\ active_users' = out.w.active

\* The standalone install_plugin: its manager lives for this call only
StandaloneInstall(user_id) ==
    \E in \in InstallInputs(source) :
        \E out \in {install_plugin(World(active_users), source, user_id,
                                  in.faults, in.fs)} :
            /\ Effect("install", TRUE, user_id, out)
            /\ UNCHANGED active_users

\* The standalone delete_plugin: its manager lives for this call only
StandaloneDelete(user_id) ==
    \E faults \in DeleteFaults :
        \E out \in {delete_plugin(World(active_users), user_id, faults)} :
            /\ Effect("delete", TRUE, user_id, out)
            /\ UNCHANGED active_users

Next ==
    \/ \E user_id \in UserIds : Install(user_id)
    \/ \E user_id \in UserIds : Delete(user_id)
    \/ \E user_id \in UserIds : StandaloneInstall(user_id)
    \/ \E user_id \in UserIds : StandaloneDelete(user_id)

Spec == Init /\ [][Next]_vars

\* One manager instance, and a database that only its install_plugin and
\* delete_plugin calls modify
NextSingle ==
    \/ \E user_id \in UserIds : Install(user_id)
    \/ \E user_id \in UserIds : Delete(user_id)

SpecSingle == Init /\ [][NextSingle]_vars

----------------------------------------------------------------------------
(* Validation of every plugin directory *)

Fields == {"name", "version", "main"}

PackageJsons ==
    [state : {"absent", "unreadable", "invalid"}, kind : {"none"}, members : {{}}]
    \cup [state : {"parsed"}, kind : {"object", "array", "string"},
          members : SUBSET Fields]
    \cup {[state |-> "parsed", kind |-> "scalar", members |-> {}]}

PluginDirs == [package_json : PackageJsons, bundle : -1..MaxBundleSize]

InitValidate ==
    /\ plugin = {}
    /\ module = {}
    /\ tx_plugin = {}
    /\ tx_module = {}
    /\ active_users = {}
    /\ source = DefaultSource
    /\ target = {}
    /\ plugin_dir \in PluginDirs
    /\ last = [op |-> "none"]

Validate(user_id) ==
    /\ last' = [op |-> "validate", user_id |-> user_id,
                ret |-> _validate_installation_impl(user_id, plugin_dir)]
    /\ UNCHANGED <<plugin, module, tx_plugin, tx_module, active_users,
                   source, target, plugin_dir>>

NextValidate == \E user_id \in UserIds : Validate(user_id)

SpecValidate == InitValidate /\ [][NextValidate]_vars

----------------------------------------------------------------------------
(* The file copy over every source tree *)

\* The files a source tree may hold besides lifecycle_manager.py
OptionalFiles ==
    {<<"package.json">>, <<"dist", "remoteEntry.js">>,
     <<"node_modules", "index.js">>, <<".git", "config">>,
     <<"package-lock.json">>, <<"src", "util.pyc">>,
     <<"sub", "lifecycle_manager.py">>}

\* The tree holding the files fs: the files and the directories above them
Tree(fs) == {File(p) : p \in fs} \cup UNION {Parents(p) : p \in fs}

SourceTrees == {Tree(fs \cup {lifecycle_manager_py}) : fs \in SUBSET OptionalFiles}

InitCopy ==
    /\ plugin = {}
    /\ module = {}
    /\ tx_plugin = {}
    /\ tx_module = {}
    /\ active_users = {}
    /\ source \in SourceTrees
    /\ target = {}
    /\ plugin_dir = NoDir
    /\ last = [op |-> "none"]

\* One _copy_plugin_files_impl into the empty shared directory
Copy(user_id) ==
    /\ last.op = "none"
    /\ \E failing \in SUBSET LoopItems(source),
          fatal \in {"none", "rglob", "final"} :
           \E out \in {_copy_plugin_files_impl(source, target, failing, fatal)} :
               /\ target' = out.target
               /\ last' = [op |-> "copy", user_id |-> user_id,
                           failing |-> failing, ret |-> out.ret]
    /\ UNCHANGED <<plugin, module, tx_plugin, tx_module, active_users,
                   source, plugin_dir>>

NextCopy == \E user_id \in UserIds : Copy(user_id)

SpecCopy == InitCopy /\ [][NextCopy]_vars

----------------------------------------------------------------------------
(* Properties *)

\* sub occurs in str
Contains(str, sub) ==
    \E i \in 1..(Len(str) - Len(sub) + 1) :
        SubSeq(str, i, i + Len(sub) - 1) = sub

\* The events of a trace with operation op
EventsOf(trace, op) == {i \in DOMAIN trace : trace[i].op = op}

InsertOps == {"INSERT_PLUGIN", "INSERT_MODULE"}

DeleteOps == {"DELETE_MODULE", "DELETE_PLUGIN"}

\* C1: an install for a user whose plugin row already exists returns
\* success=False with an 'already installed' error, executes no INSERT, and
\* leaves at most the rows of the first install (one plugin row, one module
\* row per module definition).
C1_SecondInstallRefused ==
    (last.op = "install" /\ last.pre_plugin > 0) =>
        /\ ~last.ret.success
        /\ Contains(last.ret.error, "already installed")
        /\ \A i \in DOMAIN last.trace : last.trace[i].op \notin InsertOps
        /\ Cardinality(RowsOf(plugin, last.user_id)) <= 1
        /\ Cardinality(RowsOf(module, last.user_id)) <= Len(module_data)

\* C2: a standalone delete_plugin that directly follows a successful
\* standalone install_plugin for the same user, and whose database calls
\* all succeed, returns success=True and leaves no plugin row and no module
\* row of that user.
C2_StandaloneUninstallRemoves ==
    [][(/\ last.op = "install" /\ last.standalone /\ last.ret.success
        /\ last'.op = "delete" /\ last'.standalone
        /\ last'.user_id = last.user_id
        /\ \A i \in DOMAIN last'.trace : last'.trace[i].ok)
       => (/\ last'.ret.success
           /\ RowsOf(plugin', last.user_id) = {}
           /\ RowsOf(module', last.user_id) = {})]_vars

\* C3: after an install that returns success=True for a user who had no
\* rows, the committed database holds exactly one plugin row
\* (id user_id + "_CollectionViewer") and exactly one module row
\* (id user_id + "_CollectionViewer_CollectionViewer", referencing the
\* plugin row) of that user, and the result names exactly those rows.
C3_InstallCreatesOneRowEach ==
    (/\ last.op = "install" /\ last.ret.success
     /\ last.pre_plugin = 0 /\ last.pre_module = 0) =>
        LET u == last.user_id
            pid == u \o "_CollectionViewer"
            mid == u \o "_CollectionViewer_CollectionViewer"
        IN  /\ RowsOf(plugin, u) =
                   {[id |-> pid, user_id |-> u, plugin_slug |-> "CollectionViewer"]}
            /\ RowsOf(module, u) =
                   {[id |-> mid, plugin_id |-> pid, name |-> "CollectionViewer",
                     user_id |-> u]}
            /\ last.ret.plugin_id = pid
            /\ last.ret.modules_created = <<mid>>

C3_Witness ==
    /\ last.op = "install" /\ last.ret.success
    /\ last.pre_plugin = 0 /\ last.pre_module = 0
    /\ Cardinality(RowsOf(plugin, last.user_id)) = 1

\* C4: a delete for a user who has no plugin row returns success=False and
\* changes neither the committed plugin table, nor the committed module
\* table, nor active_users, and it commits nothing.
C4_UninstallOfAbsentChangesNothing ==
    [][(last'.op = "delete" /\ RowsOf(plugin, last'.user_id) = {})
       => (/\ ~last'.ret.success
           /\ plugin' = plugin
           /\ module' = module
           /\ active_users' = active_users
           /\ EventsOf(last'.trace, "COMMIT") = {})]_vars

C4_Witness ==
    /\ last.op = "delete" /\ last.pre_plugin = 0
    /\ ~last.ret.success
    /\ plugin # {}

\* The plugin's files are in the shared directory: lifecycle_manager.py and
\* every file of the source tree that is not excluded
FilesCopied ==
    /\ File(lifecycle_manager_py) \in target
    /\ \A item \in source :
           (item.kind = "file" /\ should_copy(item.path)) => item \in target

\* The file copy into the shared directory has returned success (its last
\* step, the copy of lifecycle_manager.py, was done)
CopyCompleted == File(lifecycle_manager_py) \in target

ModuleReferences(p) == \E r \in module : r.plugin_id = p.id

C6_PluginAndModuleTogether ==
    /\ \A u \in UserIds : (RowsOf(plugin, u) # {}) <=> (RowsOf(module, u) # {})
    /\ \A r \in module : \E p \in plugin : p.id = r.plugin_id
    /\ tx_plugin = plugin /\ tx_module = module
    /\ last.op \in {"install", "delete"} =>
           Cardinality({i \in EventsOf(last.trace, "COMMIT") : last.trace[i].ok}) <= 1

\* A call whose plugin INSERT succeeded and whose module INSERT failed, or
\* whose module DELETE succeeded and whose plugin DELETE failed
C6_Witness ==
    /\ last.op \in {"install", "delete"}
    /\ \/ /\ \E i \in EventsOf(last.trace, "INSERT_PLUGIN") : last.trace[i].ok
          /\ \E i \in EventsOf(last.trace, "INSERT_MODULE") : ~last.trace[i].ok
       \/ /\ \E i \in EventsOf(last.trace, "DELETE_MODULE") : last.trace[i].ok
          /\ \E i \in EventsOf(last.trace, "DELETE_PLUGIN") : ~last.trace[i].ok

DbOps == {"SELECT", "COMMIT"} \cup InsertOps \cup DeleteOps

\* C7: whenever a database call of install_plugin or delete_plugin fails
\* (SELECT, INSERT, DELETE or commit), db.rollback is called before the
\* operation returns, and no other database call follows the failure.
C7_FailureRollsBack ==
    last.op \in {"install", "delete"} =>
        \A i \in DOMAIN last.trace :
            (last.trace[i].op \in DbOps /\ ~last.trace[i].ok) =>
                /\ \E j \in (i + 1)..Len(last.trace) : last.trace[j].op = "ROLLBACK"
                /\ \A j \in (i + 1)..Len(last.trace) :
                       last.trace[j].op \notin DbOps
                /\ ~last.ret.success

\* C8: no exception leaves install_plugin or delete_plugin, whatever call
\* fails (a failing db.rollback included); the record returned has a
\* boolean success, an error exactly when success is False, and plugin_id
\* with modules_created (install) or deleted_modules (delete) when success
\* is True.
C8_AlwaysAResultRecord ==
    last.op \in {"install", "delete"} =>
        /\ ~last.raised
        /\ "success" \in DOMAIN last.ret
        /\ last.ret.success \in BOOLEAN
        /\ ("error" \in DOMAIN last.ret) <=> ~last.ret.success
        /\ ("error" \in DOMAIN last.ret) => last.ret.error # ""
        /\ last.ret.success =>
               /\ "plugin_id" \in DOMAIN last.ret
               /\ last.op = "install" => "modules_created" \in DOMAIN last.ret
               /\ last.op = "delete" => "deleted_modules" \in DOMAIN last.ret

\* A delete whose rollback raised inside the error handler
C8_Witness ==
    /\ last.op = "delete"
    /\ \E i \in EventsOf(last.trace, "ROLLBACK") : ~last.trace[i].ok
    /\ ~last.ret.success

\* package.json can be read, parses to a value that supports "in", and
\* "name" and "version" are in it
PackageOk ==
    /\ plugin_dir.package_json.state = "parsed"
    /\ plugin_dir.package_json.kind # "scalar"
    /\ {"name", "version"} \subseteq plugin_dir.package_json.members

\* C9 as stated: validation returns valid=False with an error naming
\* dist/remoteEntry.js whenever that file is absent, and valid=False with
\* 'Bundle file is empty' whenever it is present but zero-length, whatever
\* package.json is; valid=True only when both files exist, package.json
\* parses and has name and version, and the bundle is not empty.
C9_ValidationMessages ==
    last.op = "validate" =>
        /\ plugin_dir.bundle < 0 =>
               ~last.ret.valid /\ Contains(last.ret.error, "dist/remoteEntry.js")
        /\ plugin_dir.bundle = 0 =>
               ~last.ret.valid /\ last.ret.error = "Bundle file is empty"
        /\ last.ret.valid =>
               /\ plugin_dir.package_json.state = "parsed"
               /\ {"name", "version"} \subseteq plugin_dir.package_json.members
               /\ plugin_dir.bundle > 0

\* C9 amended: an absent dist/remoteEntry.js gives valid=False with an error
\* naming it, whatever package.json is; a zero-length one gives valid=False
\* in every case, with 'Bundle file is empty' exactly when package.json
\* passes its own checks (it exists, can be read, parses, and "name" and
\* "version" are in the parsed value), since package.json is checked first
\* and its error is the one returned otherwise; valid=True only when
\* package.json passes its checks and the bundle is not empty.
C9_ValidationMessagesAmended ==
    last.op = "validate" =>
        /\ plugin_dir.bundle < 0 =>
               ~last.ret.valid /\ Contains(last.ret.error, "dist/remoteEntry.js")
        /\ plugin_dir.bundle = 0 =>
               /\ ~last.ret.valid
               /\ (last.ret.error = "Bundle file is empty") <=> PackageOk
        /\ last.ret.valid => (PackageOk /\ plugin_dir.bundle > 0)
        /\ "error" \in DOMAIN last.ret <=> ~last.ret.valid

C9_Witness ==
    /\ last.op = "validate"
    /\ plugin_dir.bundle = 0
    /\ PackageOk
    /\ last.ret = [valid |-> FALSE, error |-> "Bundle file is empty"]

\* The number of times x is listed in seq
CountIn(seq, x) == Cardinality({i \in DOMAIN seq : seq[i] = x})

HasComponent(path, names) == \E i \in 1..Len(path) : path[i] \in names

\* The paths the copy leaves out
ExcludedPath(path) ==
    \/ HasComponent(path, {"node_modules", "package-lock.json", ".git",
                           ".gitignore", "__pycache__", "*.pyc", ".DS_Store"})
    \/ EndsWith(path[Len(path)], ".pyc")

\* C10 as stated: the copy leaves out every path with a component
\* node_modules or .git and copies every other file of the source tree to
\* the same relative path; lifecycle_manager.py is copied to the target
\* root and listed in copied_files exactly once; success=True implies that
\* every file not left out is in the target.
C10_CopyAllButNodeModulesAndGit ==
    last.op = "copy" =>
        /\ \A item \in target : ~HasComponent(item.path, {"node_modules", ".git"})
        /\ last.ret.success =>
               /\ \A item \in source :
                      (/\ item.kind = "file"
                       /\ ~HasComponent(item.path, {"node_modules", ".git"}))
                      => item \in target
               /\ File(<<"lifecycle_manager.py">>) \in target
               /\ CountIn(last.ret.copied_files, "lifecycle_manager.py") = 1

\* C10 amended: the copy leaves out every path with a component in the
\* exclusion set (node_modules, package-lock.json, .git, .gitignore,
\* __pycache__, *.pyc, .DS_Store) or whose name ends in .pyc; it copies
\* every other file to the same relative path unless that file's own copy
\* raised (logged and skipped); lifecycle_manager.py is copied to the
\* target root and listed in copied_files exactly once; success=True
\* implies that every file not left out whose own copy did not raise is in
\* the target.
C10_CopyAllButExcludedAndFailed ==
    last.op = "copy" =>
        /\ \A item \in target : ~ExcludedPath(item.path) /\ item \in source
        /\ last.ret.success =>
               /\ \A item \in source :
                      (/\ item.kind = "file"
                       /\ ~ExcludedPath(item.path)
                       /\ item \notin last.failing)
                      => item \in target
               /\ File(<<"lifecycle_manager.py">>) \in target
               /\ CountIn(last.ret.copied_files, "lifecycle_manager.py") = 1
               /\ \A item \in target :
                      item.kind = "file" =>
                          CountIn(last.ret.copied_files, PathStr(item.path)) = 1

C10_Witness ==
    /\ last.op = "copy" /\ last.ret.success
    /\ File(<<"node_modules", "index.js">>) \in source
    /\ File(<<"src", "util.pyc">>) \in source
    /\ File(<<"sub", "lifecycle_manager.py">>) \in target
    /\ File(<<"package.json">>) \in last.failing
    /\ File(<<"dist", "remoteEntry.js">>) \in target

\* The events of a trace with operation op that succeeded
OkEventsOf(trace, op) == {i \in EventsOf(trace, op) : trace[i].ok}

\* The events of a trace that are INSERTs
InsertEvents(trace) == {i \in DOMAIN trace : trace[i].op \in InsertOps}

\* C11: an install call starts with the existence check (one SELECT); every
\* INSERT comes after a file copy that returned success; every module
\* INSERT comes after a plugin INSERT that succeeded; a commit comes only
\* after the plugin INSERT and one module INSERT per module definition
\* succeeded and no INSERT failed; and when the existence check found a row
\* of the user, or the shared directory could not be made, or the copy
\* returned failure, the call executes no INSERT and no commit.
C11_InstallOrder ==
    last.op = "install" =>
        /\ last.trace # <<>>
        /\ EventsOf(last.trace, "SELECT") = {1}
        /\ \A i \in InsertEvents(last.trace) :
               \E j \in OkEventsOf(last.trace, "COPY") : j < i
        /\ \A i \in EventsOf(last.trace, "INSERT_MODULE") :
               \E j \in OkEventsOf(last.trace, "INSERT_PLUGIN") : j < i
        /\ \A c \in EventsOf(last.trace, "COMMIT") :
               /\ Cardinality({j \in OkEventsOf(last.trace, "INSERT_PLUGIN") : j < c}) = 1
               /\ Cardinality({j \in OkEventsOf(last.trace, "INSERT_MODULE") : j < c})
                      = Len(module_data)
               /\ \A j \in InsertEvents(last.trace) : j < c /\ last.trace[j].ok
        /\ (\/ last.trace[1].ok /\ last.pre_plugin > 0
            \/ \E i \in DOMAIN last.trace :
                   last.trace[i].op \in {"MKDIR", "COPY"} /\ ~last.trace[i].ok)
           => /\ InsertEvents(last.trace) = {}
              /\ EventsOf(last.trace, "COMMIT") = {}
              /\ ~last.ret.success

\* An install that went through every step
C11_Witness ==
    /\ last.op = "install" /\ last.ret.success
    /\ [i \in DOMAIN last.trace |-> last.trace[i].op] =
           <<"SELECT", "MKDIR", "COPY", "INSERT_PLUGIN", "INSERT_MODULE", "COMMIT">>
    /\ \A i \in DOMAIN last.trace : last.trace[i].ok

\* The events of a trace that are DELETEs
DeleteEvents(trace) == {i \in DOMAIN trace : trace[i].op \in DeleteOps}

\* _delete_database_records for a user whose plugin row is not in the table
\* (its plugin DELETE affects no row): it rolls back, commits nothing,
\* changes no table and returns success=False 'Plugin not found'
PluginNotFound(u) ==
    \A r \in {_delete_database_records(Session, u, PluginId(u), {})} :
        /\ ~r.raised
        /\ r.ret = [success |-> FALSE, error |-> "Plugin not found"]
        /\ [i \in DOMAIN r.d.trace |-> r.d.trace[i].op] =
               <<"DELETE_MODULE", "DELETE_PLUGIN", "ROLLBACK">>
        /\ r.d.plugin = plugin /\ r.d.module = module
        /\ r.d.tx_plugin = plugin /\ r.d.tx_module = module

\* C12: a delete call executes a DELETE only after its existence check (the
\* first database call, one SELECT) succeeded and the user had a plugin row;
\* the plugin DELETE comes only after a module DELETE that succeeded; a
\* commit comes only after both DELETEs succeeded, in a call that found a
\* plugin row to delete, and a commit that succeeded removed it;
\* deleted_modules of a successful call is the number of module rows of the
\* user the call removed; and _delete_database_records, when its plugin
\* DELETE affects no row, rolls back, commits nothing and returns
\* success=False 'Plugin not found'.
C12_UninstallOrder ==
    last.op = "delete" =>
        /\ EventsOf(last.trace, "SELECT") \subseteq {1}
        /\ DeleteEvents(last.trace) # {} =>
               /\ OkEventsOf(last.trace, "SELECT") = {1}
               /\ last.pre_plugin > 0
        /\ \A i \in EventsOf(last.trace, "DELETE_PLUGIN") :
               \E j \in OkEventsOf(last.trace, "DELETE_MODULE") : j < i
        /\ \A c \in EventsOf(last.trace, "COMMIT") :
               /\ \E j \in OkEventsOf(last.trace, "DELETE_PLUGIN") : j < c
               /\ \A j \in DeleteEvents(last.trace) : j < c /\ last.trace[j].ok
               /\ last.pre_plugin >= 1
               /\ last.trace[c].ok =>
                      RowsOf(plugin, last.user_id) = {} /\ last.ret.success
        /\ last.ret.success =>
               /\ [i \in DOMAIN last.trace |-> last.trace[i].op] =
                      <<"SELECT", "DELETE_MODULE", "DELETE_PLUGIN", "COMMIT">>
               /\ last.ret.deleted_modules =
                      last.pre_module - Cardinality(RowsOf(module, last.user_id))
        /\ \A u \in UserIds : RowsOf(plugin, u) = {} => PluginNotFound(u)

\* A delete that went through every step and removed the user's module row
C12_Witness ==
    /\ last.op = "delete" /\ last.ret.success
    /\ last.pre_plugin = 1 /\ last.pre_module = Len(module_data)
    /\ last.ret.deleted_modules = Len(module_data)
    /\ RowsOf(module, last.user_id) = {}
    /\ OkEventsOf(last.trace, "COMMIT") # {}

\* The users with a committed plugin row
InstalledUsers(table) == {u \in UserIds : RowsOf(table, u) # {}}

\* The last event of the call's trace is a commit that succeeded
EndedInCommit(call) ==
    /\ call.trace # <<>>
    /\ call.trace[Len(call.trace)] = Event("COMMIT", TRUE)

\* C13: with one manager instance and a database modified only through it,
\* after every call active_users is the set of users with a committed
\* plugin row; a call adds a user only if it is that user's install,
\* returned success and ended in a commit that succeeded; it removes a user
\* only if it is that user's delete, returned success and ended in a commit
\* that succeeded; and a call that returns failure leaves active_users
\* unchanged.
C13_ActiveUsersAreInstalled ==
    [][/\ active_users' = InstalledUsers(plugin')
       /\ \A u \in active_users' \ active_users :
              /\ last'.op = "install" /\ last'.user_id = u
              /\ last'.ret.success /\ EndedInCommit(last')
       /\ \A u \in active_users \ active_users' :
              /\ last'.op = "delete" /\ last'.user_id = u
              /\ last'.ret.success /\ EndedInCommit(last')
       /\ ~last'.ret.success => active_users' = active_users
       /\ last'.ret.success =>
              active_users' = IF last'.op = "install"
                              THEN active_users \cup {last'.user_id}
                              ELSE active_users \ {last'.user_id}]_vars

\* A failed delete of an installed user after which that user is still
\* active and installed, while another user is neither
C13_Witness ==
    /\ last.op = "delete" /\ ~last.standalone /\ ~last.ret.success
    /\ last.user_id \in active_users
    /\ active_users = InstalledUsers(plugin)
    /\ active_users # UserIds
    /\ DeleteEvents(last.trace) # {}

\* User ids to compare generated ids on: those of the calls, and ids that
\* contain the separator and the slug
ProbeUserIds == UserIds \cup {"u", "u1_", "u1_CollectionViewer", "_CollectionViewer"}

\* The names of the module definitions
ModuleNames == {module_data[i] : i \in DOMAIN module_data}

\* The plugin ids generated for two users differ, and so do their module ids
GeneratedIdsDiffer ==
    \A a \in ProbeUserIds : \A b \in ProbeUserIds \ {a} :
        /\ PluginId(a) # PluginId(b)
        /\ \A n1 \in ModuleNames : \A n2 \in ModuleNames :
               ModuleId(a, n1) # ModuleId(b, n2)

=============================================================================
